---------------------------- MODULE Spec2Model ----------------------------
(***************************************************************************)
(* A model of osm_rawdata/postgres.py: the connection-string parser        *)
(* uriParser, the client construction (DatabaseAccess.__init__), the two   *)
(* query compilers (createJson, createSQL), the two executors (queryLocal, *)
(* queryRemote) and the facade PostgresClient.execQuery.                   *)
(*                                                                         *)
(* Python strings are sequences of one-character strings, so that find,    *)
(* rfind and slicing are computed as the code computes them.  Python's     *)
(* None is the value None below, which is no string of characters.         *)
(***************************************************************************)
EXTENDS Integers, Sequences, FiniteSets, TLC

VARIABLES
    source,           \* uriParser's argument / the client's dburi
    parts,            \* the segments the connection string was built from
    uri,              \* uriParser's result (self.uri)
    dbshell,          \* self.dbshell
    dbcursor,         \* self.dbcursor
    session,          \* self.session (requests.Session) or None
    qc,               \* self.qc.config
    pc,               \* position of the running call
    customsql,        \* execQuery's customsql argument
    extra_params,     \* the keyword arguments of the call beyond customsql
    sql,              \* execQuery: the statements still to run
    alldata,          \* execQuery: the features collected so far
    produced,         \* what each queryLocal call produced, in call order
    executed,         \* the statements handed to dbcursor.execute, in order
    fetchall,         \* what dbcursor.fetchall returned, in call order
    json_config,      \* createJson's result
    result,           \* queryRemote: the submission response
    task_id,          \* queryRemote: task_id
    result_json,      \* queryRemote: the last task-status document
    elapsed_time,     \* queryRemote: elapsed_time
    polling_interval, \* queryRemote: polling_interval
    zip_url,          \* queryRemote: zip_url
    sent,             \* the HTTP requests sent so far
    wait,             \* the last wait of the polling loop, or None
    logged,           \* the messages handed to log.error
    collection,       \* the value the call returned
    raised            \* the exception that left the call, or None

vars == <<source, parts, uri, dbshell, dbcursor, session, qc, pc, customsql,
          extra_params, sql, alldata, produced, executed, fetchall,
          json_config, result, task_id,
          result_json, elapsed_time, polling_interval, zip_url, sent, wait,
          logged, collection, raised>>

None == <<"None">>

(***************************************************************************)
(* Python string primitives.                                               *)
(***************************************************************************)
\* str.find(c): the 0-based index of the first c, or -1
Find(s, c) ==
    IF \E i \in 1..Len(s) : s[i] = c
    THEN (CHOOSE i \in 1..Len(s) : s[i] = c /\ \A j \in 1..(i-1) : s[j] # c) - 1
    ELSE -1

\* str.rfind(c): the 0-based index of the last c, or -1
RFind(s, c) ==
    IF \E i \in 1..Len(s) : s[i] = c
    THEN (CHOOSE i \in 1..Len(s) : s[i] = c /\ \A j \in (i+1)..Len(s) : s[j] # c) - 1
    ELSE -1

\* s[a:b] for 0 <= a, 0 <= b
Slice(s, a, b) == SubSeq(s, a + 1, IF b > Len(s) THEN Len(s) ELSE b)

\* s[a:]
SliceFrom(s, a) == SubSeq(s, a + 1, Len(s))

\* Python truthiness of a str-or-None
Truthy(s) == s # None /\ s # <<>>

(***************************************************************************)
(* uriParser (postgres.py 51-114).                                         *)
(***************************************************************************)
\* lines 84-87: the user field
DbUser(src, colon, atsign) ==
    IF colon < 0 /\ atsign > 0 THEN SubSeq(src, 1, atsign)
    ELSE IF colon > 0 THEN SubSeq(src, 1, colon)
    ELSE None

\* lines 89-90 and 107-108: the password field
DbPass(src, colon, atsign, slash) ==
    IF colon > 0 /\ atsign < 0 /\ slash > 0 THEN Slice(src, colon + 1, slash)
    ELSE IF colon > 0 /\ atsign > 0 THEN Slice(src, colon + 1, atsign)
    ELSE None

\* lines 93-99: the host field, before the default
DbHost(src, rcolon, atsign, slash) ==
    IF atsign > 0
    THEN IF rcolon > 0 /\ rcolon > atsign THEN Slice(src, atsign + 1, rcolon)
         ELSE IF slash > 0 THEN Slice(src, atsign + 1, slash)
         ELSE SliceFrom(src, atsign + 1)
    ELSE None

\* lines 101-105: the port field
DbPort(src, rcolon, atsign, slash) ==
    IF rcolon > 0 /\ rcolon > atsign
    THEN IF slash > 0 THEN Slice(src, rcolon + 1, slash)
         ELSE SliceFrom(src, rcolon + 1)
    ELSE None

\* lines 77-81: the database name
DbName(src, colon, atsign, slash) ==
    IF slash > 0 THEN SliceFrom(src, slash + 1)
    ELSE IF colon < 0 /\ atsign < 0 /\ slash < 0 THEN src
    ELSE None

uriParser(src) ==
    LET colon  == Find(src, ":")
        rcolon == RFind(src, ":")
        atsign == Find(src, "@")
        slash  == Find(src, "/")
        host   == DbHost(src, rcolon, atsign, slash)
    IN  [dbname |-> DbName(src, colon, atsign, slash),
         dbhost |-> IF Truthy(host) THEN host ELSE <<"l","o","c","a","l","h","o","s","t">>,
         dbuser |-> DbUser(src, colon, atsign),
         dbpass |-> DbPass(src, colon, atsign, slash),
         dbport |-> DbPort(src, rcolon, atsign, slash)]

(***************************************************************************)
(* Connection strings: the segments a string is built from.  Shapes are    *)
(* the grammar [[user[:password]@]host[:port]/]dbname and the legacy       *)
(* shorthand user:password/dbname.                                         *)
(***************************************************************************)
SegLen == 1

Alphabet == {"a", "b"}

Names == UNION {[1..n -> Alphabet] : n \in 1..SegLen}

OptNames == Names \cup {None}

Opt(prefix, seg, suffix) == IF seg = None THEN <<>> ELSE prefix \o seg \o suffix

\* the segments of a string of the grammar, or of the legacy shorthand
GrammarParts ==
    {p \in [user : OptNames, pass : OptNames, host : OptNames,
            port : OptNames, name : Names, legacy : {FALSE}] :
        /\ (p.pass # None => p.user # None)
        /\ (p.user # None => p.host # None)
        /\ (p.port # None => p.host # None)}

LegacyParts ==
    [user : Names, pass : Names, host : {None}, port : {None},
     name : Names, legacy : {TRUE}]

Build(p) ==
    IF p.legacy THEN p.user \o <<":">> \o p.pass \o <<"/">> \o p.name
    ELSE IF p.host = None THEN p.name
    ELSE Opt(<<>>, p.user, Opt(<<":">>, p.pass, <<>>) \o <<"@">>)
         \o p.host \o Opt(<<":">>, p.port, <<>>) \o <<"/">> \o p.name

(***************************************************************************)
(* The query configuration (QueryConfig.config, read by postgres.py):      *)
(* tables, and per table the selected keys and the where entries.  A       *)
(* where entry is the dict {key: values, "op": op}; its values are a list  *)
(* of strings, or a list holding one list of strings (nested).             *)
(***************************************************************************)
Tables == {"nodes", "ways_poly", "ways_line"}

TableOrder == <<"nodes", "ways_poly", "ways_line">>

Keys == {"building", "amenity"}

NotNull == "not null"

StrList(items) == [nested |-> FALSE, items |-> items]

NestedList(items) == [nested |-> TRUE, items |-> items]

ValueLists ==
    {StrList(<<>>), StrList(<<"yes">>), StrList(<<NotNull>>),
     StrList(<<"yes", "no">>), NestedList(<<"yes", "no">>)}

WhereEntries == [key : Keys, val : ValueLists, op : {"or", "and"}]

SeqsUpTo(S, n) == UNION {[1..k -> S] : k \in 0..n}

\* "x in v" for a where entry's value list v
InList(x, v) == ~v.nested /\ \E i \in 1..Len(v.items) : v.items[i] = x

(***************************************************************************)
(* Python dicts with insertion order: a sequence of <<key, value>> pairs.  *)
(***************************************************************************)
DictHas(d, k) == \E i \in 1..Len(d) : d[i][1] = k

DictGet(d, k) == d[CHOOSE i \in 1..Len(d) : d[i][1] = k][2]

DictSet(d, k, v) ==
    IF DictHas(d, k)
    THEN [i \in 1..Len(d) |-> IF d[i][1] = k THEN <<k, v>> ELSE d[i]]
    ELSE Append(d, <<k, v>>)

(***************************************************************************)
(* createJson (postgres.py 164-242).                                       *)
(***************************************************************************)
\* line 199: tables = {"nodes": "point", "ways_poly": "polygon", "ways_line": "line"}
TableClass(table) ==
    CASE table = "nodes" -> "point"
      [] table = "ways_poly" -> "polygon"
      [] table = "ways_line" -> "line"

\* lines 224-229: the value recorded for a where entry
RecordedValue(item) == IF InList(NotNull, item.val) THEN StrList(<<>>) ELSE item.val

\* lines 225, 228: what the loop leaves in filters["tags"][class]["join_or"]
RECURSIVE FilterJoinOr(_, _)
FilterJoinOr(items, d) ==
    IF items = <<>> THEN d
    ELSE FilterJoinOr(Tail(items), DictSet(d, Head(items).key, RecordedValue(Head(items))))

\* lines 226, 229: what the loop leaves in filters["tags"][class]["join_and"]
RECURSIVE FilterJoinAnd(_, _)
FilterJoinAnd(items, d) ==
    IF items = <<>> THEN d
    ELSE FilterJoinAnd(Tail(items), DictSet(d, Head(items).key, RecordedValue(Head(items))))

\* lines 191-197: the geometry types of the output
GeometryType(config) ==
    LET used(t) == Len(config.select[t]) > 0 \/ Len(config.where[t]) > 0
    IN  (IF used("nodes") THEN <<"point">> ELSE <<>>)
        \o (IF used("ways_line") THEN <<"line">> ELSE <<>>)
        \o (IF used("ways_poly") THEN <<"polygon">> ELSE <<>>)

createJson(config, boundary, allgeom) ==
    [geometry     |-> boundary,
     geometryType |-> GeometryType(config),
     filters      |->
        [tags |-> [c \in {"point", "polygon", "line"} |->
            LET t == CHOOSE t \in Tables : TableClass(t) = c
            IN  [join_or  |-> FilterJoinOr(config.where[t], <<>>),
                 join_and |-> FilterJoinAnd(config.where[t], <<>>)]]]]

(***************************************************************************)
(* createSQL (postgres.py 244-335).  A statement is the sequence of the    *)
(* words of its text; a rendered value list is one word.                   *)
(***************************************************************************)
Quoted(x) == "'" \o x \o "'"

RECURSIVE CommaJoin(_)
CommaJoin(items) ==
    IF items = <<>> THEN ""
    ELSE IF Len(items) = 1 THEN Quoted(Head(items))
    ELSE Quoted(Head(items)) \o ", " \o CommaJoin(Tail(items))

\* str(list) and str(tuple) of a list of strings
ListText(items) == "[" \o CommaJoin(items) \o "]"

TupleText(items) == "(" \o CommaJoin(items) \o ")"

\* len(v) of a where entry's value
LenV(v) == IF v.nested THEN 1 ELSE Len(v.items)

TagCol(k) == "tags->>'" \o k \o "'"

\* lines 261-270: the projection; select[:-2] drops the last ", "
SelectClause(config, table, allgeom) ==
    LET cols == <<IF allgeom THEN "ST_AsText(geom)" ELSE "ST_AsText(ST_Centroid(geom))",
                  "osm_id", "version">>
                \o [i \in 1..Len(config.select[table]) |-> TagCol(config.select[table][i])]
    IN  <<"SELECT">> \o [i \in 1..Len(cols) |->
                            IF i < Len(cols) THEN cols[i] \o "," ELSE cols[i]]

\* lines 272-287: the where entries of one operator, in declared order
RECURSIVE JoinGroup(_, _)
JoinGroup(entries, op) ==
    IF entries = <<>> THEN <<>>
    ELSE (IF Head(entries).op = op THEN <<Head(entries)>> ELSE <<>>)
         \o JoinGroup(Tail(entries), op)

\* lines 302-310 and 319-327: v1, with the text of the empty-list case
ValueTest(v, emptyText) ==
    IF LenV(v) = 1
    THEN IF ~v.nested /\ v.items[1] = NotNull THEN <<"IS", "NOT", "NULL">>
         ELSE IF v.nested THEN <<"='" \o ListText(v.items) \o "'">>
         ELSE <<"='" \o v.items[1] \o "'">>
    ELSE IF LenV(v) > 0 THEN <<"IN", TupleText(v.items)>>
    ELSE emptyText

\* lines 290-311: one entry of the OR group
OrPredicate(entry) ==
    IF entry.val.nested
    THEN <<TagCol(entry.key) \o "=ANY(ARRAY" \o ListText(entry.val.items) \o ")", "OR">>
    ELSE <<TagCol(entry.key)>> \o ValueTest(entry.val, <<"IS", "NOT", "NULL">>) \o <<"OR">>

\* lines 315-328: one entry of the AND group
AndPredicate(entry) ==
    <<TagCol(entry.key)>> \o ValueTest(entry.val, <<"IS", "NOT", "NULL", "AND">>)
    \o <<"AND">>

RECURSIVE Jor(_)
Jor(entries) == IF entries = <<>> THEN <<>> ELSE OrPredicate(Head(entries)) \o Jor(Tail(entries))

RECURSIVE Jand(_)
Jand(entries) == IF entries = <<>> THEN <<>> ELSE AndPredicate(Head(entries)) \o Jand(Tail(entries))

\* lines 330-333: rstrip, then cut the text at its last space
CutLastWord(words) == SubSeq(words, 1, Len(words) - 1)

Statement(config, table, allgeom) ==
    CutLastWord(SelectClause(config, table, allgeom)
                \o <<"FROM", table, "WHERE">>
                \o Jor(JoinGroup(config.where[table], "or"))
                \o Jand(JoinGroup(config.where[table], "and")))

createSQL(config, allgeom) ==
    [i \in 1..Len(config.tables) |-> Statement(config, config.tables[i], allgeom)]

(***************************************************************************)
(* Values of the calls: Python objects are records; PyNone is None.        *)
(***************************************************************************)
PyNone == [py |-> "None"]

Unset == [py |-> "unset"]

\* geojson.FeatureCollection(features): a dict with the keys type, features
FeatureCollection(features) == [type |-> "FeatureCollection", features |-> features]

\* geojson.Feature(geometry, properties)
Feature(geom, tags) == [type |-> "Feature", geometry |-> geom, properties |-> tags]

\* the list fetchall returned, handed back unchanged
RawRows(rows) == [type |-> "list", rows |-> rows]

Returns(v) == [raises |-> "none", value |-> v]

Raises(exc) == [raises |-> exc, value |-> Unset]

\* len(result) in execQuery: a list's length, or a dict's number of keys
PyLen(r) == IF r.type = "list" THEN Len(r.rows) ELSE Cardinality(DOMAIN r)

(***************************************************************************)
(* queryLocal (postgres.py 358-438).                                       *)
(***************************************************************************)
NULL == "NULL"

WktPoint == "POINT (1 2)"

\* shapely.wkt.loads
WktLoads(text) ==
    IF text = WktPoint THEN Returns([type |-> "Point", coordinates |-> <<1, 2>>])
    ELSE Raises("WKTReadingError")

\* lines 377-384: the four views, each <<view, base table>>
ViewStatements ==
    << <<"CREATE", "VIEW", "ways_view", "FROM", "ways_poly">>,
       <<"CREATE", "VIEW", "nodes_view", "FROM", "nodes">>,
       <<"CREATE", "VIEW", "lines_view", "FROM", "ways_line">>,
       <<"CREATE", "TEMP", "VIEW", "relations_view", "FROM", "nodes">> >>

\* query.find(" word ") > 0: the word with a space on both sides
FindWord(query, word) == \E i \in 2..(Len(query) - 1) : query[i] = word

\* query.replace(old, new), on whole words
ReplaceWord(query, old, new) ==
    [i \in 1..Len(query) |-> IF query[i] = old THEN new ELSE query[i]]

\* lines 386-393: FROM <table> becomes FROM <view>
RewriteQuery(query) ==
    IF FindWord(query, "ways_poly") THEN ReplaceWord(query, "ways_poly", "ways_view")
    ELSE IF FindWord(query, "ways_line") THEN ReplaceWord(query, "ways_line", "lines_view")
    ELSE IF FindWord(query, "nodes") THEN ReplaceWord(query, "nodes", "nodes_view")
    ELSE IF FindWord(query, "relations") THEN ReplaceWord(query, "relations", "relations_view")
    ELSE query

\* line 404: no filters on the polygon and point classes
Bypass(config) == Len(config.where["ways_poly"]) = 0 /\ Len(config.where["nodes"]) = 0

\* line 419: the select entries of every table, in the dict's order
AllSelected(config) ==
    config.select[TableOrder[1]] \o config.select[TableOrder[2]] \o config.select[TableOrder[3]]

\* lines 419-426: columns 3.. bound to the select entries, None omitted
RECURSIVE SelectedTags(_, _, _, _)
SelectedTags(keys, item, i, tags) ==
    IF keys = <<>> \/ i = Len(item) THEN tags
    ELSE SelectedTags(Tail(keys), item, i + 1,
                      IF item[i + 1] # NULL THEN DictSet(tags, Head(keys), item[i + 1])
                      ELSE tags)

\* word[:-1]
StripLast(word) ==
    CASE word = "osm_id," -> "osm_id"
      [] word = "version," -> "version"
      [] word = "version" -> "versio"
      [] word = "count(*)" -> "count(*"
      [] word = "ST_AsText(geom)," -> "ST_AsText(geom)"
      [] word = "" -> ""

\* lines 429-430: query[:end].split(" "), end = query.find("FROM")
SelectWords(query) ==
    LET end == CHOOSE i \in 1..Len(query) : query[i] = "FROM" /\ \A j \in 1..(i-1) : query[j] # "FROM"
    IN  SubSeq(query, 1, end - 1) \o <<"">>

\* lines 411-437: one row decoded
DecodeRow(item, query, config) ==
    IF Len(item) = 0 THEN Raises("IndexError")
    ELSE LET geom == WktLoads(item[1])
             res  == SelectWords(query)
         IN  IF geom.raises # "none" THEN geom
             ELSE IF Len(item) < 3 THEN Raises("IndexError")
             ELSE IF Len(config.tables) > 0
             THEN Returns(Feature(geom.value,
                     SelectedTags(AllSelected(config), item, 3,
                                  << <<"id", item[2]>>, <<"version", item[3]>> >>)))
             ELSE IF Len(res) < 4 THEN Raises("IndexError")
             ELSE Returns(Feature(geom.value,
                     DictSet(DictSet(<< <<"id", item[2]>>, <<"version", item[3]>> >>,
                                     StripLast(res[3]), item[2]),
                             StripLast(res[4]), item[3])))

\* lines 407-438: the loop over the rows
RECURSIVE DecodeRows(_, _, _, _, _)
DecodeRows(rows, fetched, query, config, features) ==
    IF rows = <<>> THEN Returns(FeatureCollection(features))
    ELSE IF Len(Head(rows)) <= 1 /\ Len(fetched) = 1 THEN Returns(RawRows(fetched))
    ELSE LET f == DecodeRow(Head(rows), query, config)
         IN  IF f.raises # "none" THEN f
             ELSE DecodeRows(Tail(rows), fetched, query, config, Append(features, f.value))

\* lines 396-438, after the query ran: fetched is what fetchall returned
queryLocal(query, fetched, config) ==
    IF Bypass(config) THEN Returns(RawRows(fetched))
    ELSE DecodeRows(fetched, fetched, RewriteQuery(query), config, <<>>)

(***************************************************************************)
(* queryRemote (postgres.py 441-517): what the remote side can answer.     *)
(***************************************************************************)
Absent == "absent"

StatusCodes == {200, 201, 304, 404, 500}

\* a response body: no JSON, a JSON array, or a JSON object
Bodies ==
    {[kind |-> "invalid", detail |-> Absent, task_id |-> Absent],
     [kind |-> "array", detail |-> Absent, task_id |-> Absent]}
    \cup [kind : {"object"}, detail : {Absent, "msg"}, task_id : {Absent, "t1"}]

\* exceptions session.post raises when no response is obtained
PostErrors == {"ConnectionError", "Timeout"}

Urls == {"http://a", "http://b", "http://c"}

Statuses == {"PENDING", "SUCCESS", "FAILURE", "STARTED"}

\* the archive behind a download URL: its entries, name |-> contents
Archive(url) ==
    CASE url = "http://a" -> << <<"Export.geojson", "{\"features\": []}">> >>
      [] url = "http://b" -> << <<"Export.geojson", "{\"features\": [1]}">> >>
      [] url = "http://c" -> << <<"Readme.txt", "none">> >>

\* json.loads
JsonLoads(data) ==
    CASE data = "{\"features\": []}" -> Returns([features |-> <<>>])
      [] data = "{\"features\": [1]}" -> Returns([features |-> <<1>>])
      [] OTHER -> Raises("JSONDecodeError")

initial_polling_interval == 2

slow_polling_interval == 10

first_minute == 60

max_polling_duration == 600

\* Response.raise_for_status raises HTTPError for a 4xx or 5xx status
RaisesForStatus(code) == 400 <= code /\ code < 600

\* lines 461-468: the handler of requests.exceptions.HTTPError
ErrorDocument_NoStatus(response) ==
    IF response.body.kind = "invalid" THEN Raises("JSONDecodeError")
    ELSE IF response.body.kind = "array" THEN Raises("TypeError")
    ELSE Returns(response.body)

ErrorDocument(response) ==
    IF response.body.kind = "invalid" THEN Raises("JSONDecodeError")
    ELSE IF response.body.kind = "array" THEN Raises("TypeError")
    ELSE Returns(response.body @@ [status_code |-> response.status_code])

\* lines 474-477: a response that is not 200 and raised nothing
NotOk(response) ==
    IF response.body.kind = "invalid" THEN Raises("JSONDecodeError")
    ELSE IF response.body.kind = "array" THEN Raises("AttributeError")
    ELSE IF response.body.detail = Absent THEN Raises("TypeError")
    ELSE Returns(PyNone)

\* line 479: task_id = result.json().get("task_id")
TaskId(response) ==
    IF response.body.kind = "invalid" THEN Raises("JSONDecodeError")
    ELSE IF response.body.kind = "array" THEN Raises("AttributeError")
    ELSE Returns(response.body.task_id)

\* lines 458-479 for a response: "poll" with the task id, or the call's end
Submitted(response) ==
    IF RaisesForStatus(response.status_code)
    THEN [next |-> "end", out |-> ErrorDocument(response)]
    ELSE IF response.status_code # 200
    THEN [next |-> "end", out |-> NotOk(response)]
    ELSE LET t == TaskId(response)
         IN  IF t.raises # "none" THEN [next |-> "end", out |-> t]
             ELSE [next |-> "poll", out |-> t]

\* lines 491-502: where the loop goes after a status document
AfterStatus_KeepsPolling(status) == IF status = "PENDING" THEN "wait" ELSE "again"

AfterStatus(status) ==
    IF status = "PENDING" THEN "wait"
    ELSE IF status = "SUCCESS" THEN "break"
    ELSE "again"

\* lines 493-494: the wait that starts at elapsed
PollingInterval(interval, elapsed) ==
    IF elapsed > first_minute THEN slow_polling_interval ELSE interval

\* line 509
ZipUrl(document) == document.download_url

\* lines 511-517: the archive read and decoded
ReadArchive(archive) ==
    IF DictHas(archive, "Export.geojson")
    THEN JsonLoads(DictGet(archive, "Export.geojson"))
    ELSE Raises("KeyError")

(***************************************************************************)
(* The inputs of the client's life: connection strings, configurations,    *)
(* custom statements, and the rows a statement can return.                 *)
(***************************************************************************)
Underpass == <<"u", "n", "d", "e", "r", "p", "a", "s", "s">>

ClientSources ==
    {Underpass,
     <<"u", "@", "h", "/">> \o Underpass,
     <<"d", "b">>,
     <<"u", ":", "p", "/", "d", "b">>,
     <<"u", "@", "h">>}

NoEntries == [t \in Tables |-> <<>>]

Config(tables, select, where) == [tables |-> tables, select |-> select, where |-> where]

Entry(k, items, op) == [key |-> k, val |-> StrList(items), op |-> op]

\* QueryConfig() without a config file
EmptyConfig == Config(<<>>, NoEntries, NoEntries)

ClientConfigs ==
    {EmptyConfig,
     Config(<<"ways_poly">>,
            [NoEntries EXCEPT !["ways_poly"] = <<"building", "amenity">>],
            [NoEntries EXCEPT !["ways_poly"] = <<Entry("building", <<"yes">>, "or")>>]),
     Config(<<"nodes", "ways_poly">>,
            [NoEntries EXCEPT !["nodes"] = <<"amenity">>, !["ways_poly"] = <<"building">>],
            [NoEntries EXCEPT !["nodes"] = <<Entry("amenity", <<NotNull>>, "and")>>,
                              !["ways_poly"] = <<Entry("building", <<"yes", "no">>, "or")>>]),
     Config(<<"ways_line">>,
            [NoEntries EXCEPT !["ways_line"] = <<"amenity">>],
            [NoEntries EXCEPT !["ways_line"] = <<Entry("amenity", <<"yes">>, "and")>>]),
     Config(<<>>, NoEntries,
            [NoEntries EXCEPT !["nodes"] = <<Entry("amenity", <<"yes">>, "or")>>]),
     Config(<<"nodes", "ways_line">>,
            [NoEntries EXCEPT !["nodes"] = <<"amenity">>],
            [NoEntries EXCEPT !["nodes"] = <<Entry("amenity", <<"yes">>, "or")>>])}

CustomSqls ==
    {<<"SELECT", "ST_AsText(geom),", "osm_id,", "version", "FROM", "nodes",
       "WHERE", "tags->>'amenity'", "IS", "NOT", "NULL">>,
     <<"SELECT", "count(*)", "FROM", "ways_poly">>}

MaxRows == 2

\* the number of columns a statement projects
NCols(query) ==
    (CHOOSE i \in 1..Len(query) : query[i] = "FROM" /\ \A j \in 1..(i-1) : query[j] # "FROM") - 2

RowSet(n) ==
    IF n >= 3 THEN {<<WktPoint, "7", "1">> \o c : c \in [1..(n - 3) -> {"yes", NULL}]}
    ELSE {[i \in 1..n |-> "5"]}

\* what fetchall can return for a statement
ResultSets(query) == SeqsUpTo(RowSet(NCols(query)), MaxRows)

Boundary == [type |-> "Polygon"]

NoDocument == [status |-> Absent, download_url |-> Absent]

StatusDocuments ==
    [status : Statuses \ {"SUCCESS"}, download_url : {Absent}]
    \cup [status : {"SUCCESS"}, download_url : Urls]

NoWait == [start |-> -1, length |-> 0]

\* a call without further keyword arguments
NoParams == [py |-> "none"]

NothingSent ==
    [post |-> 0, polled |-> FALSE, sawOther |-> FALSE, afterSuccess |-> FALSE,
     download |-> 0, downloaded |-> Absent]

(***************************************************************************)
(* The state after nothing has run.                                        *)
(***************************************************************************)
clientVars == <<uri, dbshell, dbcursor, session>>

localVars == <<customsql, extra_params, sql, alldata, produced, executed,
               fetchall>>

remoteVars == <<result, task_id, result_json, elapsed_time, polling_interval,
                zip_url, sent, wait>>

outVars == <<logged, collection, raised>>

Fresh ==
    /\ uri = Unset /\ dbshell = "None" /\ dbcursor = "None" /\ session = "None"
    /\ pc = "new"
    /\ customsql = <<>> /\ sql = <<>> /\ alldata = <<>> /\ produced = <<>>
    /\ executed = <<>> /\ fetchall = <<>> /\ extra_params = NoParams
    /\ json_config = Unset
    /\ result = Unset /\ task_id = Absent /\ result_json = NoDocument
    /\ elapsed_time = 0 /\ polling_interval = initial_polling_interval
    /\ zip_url = Absent /\ sent = NothingSent /\ wait = NoWait
    /\ logged = {} /\ collection = Unset /\ raised = "none"

Init ==
    /\ source \in ClientSources
    /\ parts = Unset
    /\ qc \in ClientConfigs
    /\ Fresh

(***************************************************************************)
(* DatabaseAccess.__init__ (postgres.py 118-157).                          *)
(***************************************************************************)
\* lines 130-137: the reserved name, no database session
ConstructRemote ==
    /\ pc = "new"
    /\ uriParser(source).dbname = Underpass
    /\ uri' = uriParser(source)
    /\ session' = "Session"
    /\ pc' = "ready"
    /\ UNCHANGED <<source, parts, qc, dbshell, dbcursor, json_config>>
    /\ UNCHANGED <<localVars, remoteVars, outVars>>

\* lines 139-157: psycopg2.connect and cursor(), each of which can fail
ConstructLocal ==
    /\ pc = "new"
    /\ uriParser(source).dbname \notin {Underpass, None}
    /\ uri' = uriParser(source)
    /\ \E outcome \in {"connected", "no_cursor", "refused"} :
        /\ dbshell' = IF outcome = "refused" THEN "None" ELSE "connection"
        /\ dbcursor' = IF outcome = "connected" THEN "cursor" ELSE "None"
        /\ logged' = IF outcome = "connected" THEN logged ELSE {"connect"}
    /\ pc' = "ready"
    /\ UNCHANGED <<source, parts, qc, session, json_config, collection, raised>>
    /\ UNCHANGED <<localVars, remoteVars>>

\* line 140: "PG: dbname=" + None
ConstructFails ==
    /\ pc = "new"
    /\ uriParser(source).dbname = None
    /\ uri' = uriParser(source)
    /\ raised' = "TypeError"
    /\ pc' = "failed"
    /\ UNCHANGED <<source, parts, qc, dbshell, dbcursor, session, json_config,
                   logged, collection>>
    /\ UNCHANGED <<localVars, remoteVars>>

(***************************************************************************)
(* PostgresClient.execQuery (postgres.py 595-636).                         *)
(***************************************************************************)
\* line 621: if self.dbshell
HasSession_Always(shell) == TRUE

HasSession(shell) == shell # "None"

\* lines 621-626: a live session, so the statements are compiled or supplied
ExecQueryLocal ==
    /\ pc = "ready"
    /\ HasSession(dbshell)
    /\ \E cs \in CustomSqls \cup {<<>>} :
        /\ customsql' = cs
        /\ sql' = IF cs = <<>> THEN createSQL(qc, TRUE) ELSE <<cs>>
    /\ alldata' = <<>>
    /\ pc' = "local"
    /\ UNCHANGED <<source, parts, qc, clientVars, extra_params, produced, executed,
                   fetchall, json_config>>
    /\ UNCHANGED <<remoteVars, outVars>>

\* lines 633-635: no session, so the JSON is compiled and queryRemote entered
ExecQueryRemote ==
    /\ pc = "ready"
    /\ ~HasSession(dbshell)
    /\ json_config' = createJson(qc, Boundary, TRUE)
    /\ pc' = "submitting"
    /\ UNCHANGED <<source, parts, qc, clientVars>>
    /\ UNCHANGED <<localVars, remoteVars, outVars>>

\* the keyword arguments of the call of test_postgres.py 56-64
ExtraParams ==
    [fileName : {"osm-rawdata-test-extract"}, outputType : {"fgb"},
     bind_zip : BOOLEAN]

\* lines 595-600: the signature is (self, boundary, customsql, allgeom), so a
\* call that passes extra_params raises TypeError before the body runs
ExecQueryExtraParams ==
    /\ pc = "ready"
    /\ \E ep \in ExtraParams : extra_params' = ep
    /\ raised' = "TypeError"
    /\ pc' = "done"
    /\ UNCHANGED <<source, parts, qc, clientVars, customsql, sql, alldata,
                   produced, executed, fetchall, json_config, logged, collection>>
    /\ UNCHANGED remoteVars

\* lines 630-631: alldata += result["features"] when len(result) > 0
Collect(data, r) ==
    IF PyLen(r) > 0
    THEN IF r.type = "list" THEN Raises("TypeError") ELSE Returns(data \o r.features)
    ELSE Returns(data)

\* one turn of the loop of lines 627-631 around queryLocal's answer r to the
\* rows fetchall returned
LocalTurn(rows, r) ==
    /\ executed' = executed \o ViewStatements \o <<RewriteQuery(Head(sql))>>
    /\ fetchall' = Append(fetchall, rows)
    /\ IF r.raises # "none"
       THEN /\ raised' = r.raises
            /\ pc' = "done"
            /\ UNCHANGED <<sql, alldata, produced>>
       ELSE LET c == Collect(alldata, r.value)
            IN  /\ produced' = Append(produced, r.value)
                /\ IF c.raises # "none"
                   THEN /\ raised' = c.raises
                        /\ pc' = "done"
                        /\ UNCHANGED <<sql, alldata>>
                   ELSE /\ alldata' = c.value
                        /\ sql' = Tail(sql)
                        /\ UNCHANGED <<raised, pc>>
    /\ UNCHANGED <<source, parts, qc, clientVars, customsql, extra_params,
                   json_config, logged, collection>>
    /\ UNCHANGED remoteVars

\* queryLocal ran the statement and fetchall returned rows
QueryLocalRows ==
    /\ pc = "local" /\ sql # <<>> /\ dbcursor # "None"
    /\ \E fetched \in ResultSets(Head(sql)) :
        LocalTurn(fetched, queryLocal(Head(sql), fetched, qc))

\* lines 397-401: fetchall raised, an empty FeatureCollection is returned
QueryLocalNoResults ==
    /\ pc = "local" /\ sql # <<>> /\ dbcursor # "None"
    /\ LocalTurn(<<>>, Returns(FeatureCollection(<<>>)))

\* line 378: self.dbcursor is None
QueryLocalNoCursor ==
    /\ pc = "local" /\ sql # <<>> /\ dbcursor = "None"
    /\ raised' = "AttributeError"
    /\ pc' = "done"
    /\ UNCHANGED <<source, parts, qc, clientVars, localVars, json_config,
                   logged, collection>>
    /\ UNCHANGED remoteVars

\* lines 632, 636
ExecQueryReturn ==
    /\ pc = "local" /\ sql = <<>>
    /\ collection' = FeatureCollection(alldata)
    /\ pc' = "done"
    /\ UNCHANGED <<source, parts, qc, clientVars, localVars, json_config,
                   logged, raised>>
    /\ UNCHANGED remoteVars

(***************************************************************************)
(* queryRemote (postgres.py 441-517), one action per request.              *)
(***************************************************************************)
RemoteFrame ==
    UNCHANGED <<source, parts, qc, clientVars, localVars, json_config>>

\* line 457: a client that never set self.url
SubmitNoSession ==
    /\ pc = "submitting" /\ session = "None"
    /\ raised' = "AttributeError"
    /\ pc' = "done"
    /\ RemoteFrame
    /\ UNCHANGED <<remoteVars, logged, collection>>

\* line 459: the POST raised; only requests.exceptions.HTTPError is caught
SubmitNoResponse ==
    /\ pc = "submitting" /\ session # "None"
    /\ \E exc \in PostErrors : raised' = exc
    /\ sent' = [sent EXCEPT !.post = @ + 1]
    /\ pc' = "done"
    /\ RemoteFrame
    /\ UNCHANGED <<result, task_id, result_json, elapsed_time, polling_interval,
                   zip_url, wait, logged, collection>>

\* lines 459-485: the POST was answered
SubmitResponse ==
    /\ pc = "submitting" /\ session # "None"
    /\ \E response \in [status_code : StatusCodes, body : Bodies] :
        LET s == Submitted(response)
        IN  /\ result' = response
            /\ IF s.next = "poll"
               THEN /\ task_id' = s.out.value
                    /\ pc' = "polling"
                    /\ UNCHANGED <<logged, collection, raised>>
               ELSE /\ pc' = "done"
                    /\ raised' = s.out.raises
                    /\ collection' = s.out.value
                    /\ logged' = IF s.out.raises # "none" THEN logged
                                 ELSE IF s.out.value = PyNone THEN logged \cup {"detail"}
                                 ELSE logged \cup {"extract_failed"}
                    /\ UNCHANGED task_id
    /\ sent' = [sent EXCEPT !.post = @ + 1]
    /\ elapsed_time' = 0
    /\ polling_interval' = initial_polling_interval
    /\ RemoteFrame
    /\ UNCHANGED <<result_json, zip_url, wait>>

\* lines 487-502: one status request, answered with a status document, and
\* what the loop does with the answer
Poll ==
    /\ pc = "polling"
    /\ elapsed_time < max_polling_duration
    /\ \E document \in StatusDocuments :
        LET go       == AfterStatus(document.status)
            interval == PollingInterval(polling_interval, elapsed_time)
        IN  /\ result' = [status_code |-> 200, body |-> document]
            /\ result_json' = document
            /\ sent' = [sent EXCEPT
                          !.polled = TRUE,
                          !.afterSuccess = @ \/ result_json.status = "SUCCESS",
                          !.sawOther = @ \/ document.status \notin {"PENDING", "SUCCESS"}]
            /\ IF go = "wait"
               THEN /\ polling_interval' = interval
                    /\ wait' = [start |-> elapsed_time, length |-> interval]
                    /\ elapsed_time' = elapsed_time + interval
                    /\ pc' = "polling"
               ELSE /\ pc' = IF go = "break" THEN "downloading" ELSE "polling"
                    /\ UNCHANGED <<polling_interval, wait, elapsed_time>>
    /\ RemoteFrame
    /\ UNCHANGED <<task_id, zip_url, outVars>>

\* lines 504-507: the loop ended without a break
PollTimeout ==
    /\ pc = "polling"
    /\ ~(elapsed_time < max_polling_duration)
    /\ logged' = logged \cup {"timeout"}
    /\ collection' = PyNone
    /\ pc' = "done"
    /\ RemoteFrame
    /\ UNCHANGED <<remoteVars, raised>>

\* lines 509-517: the download, the archive and its Export.geojson
Download ==
    /\ pc = "downloading"
    /\ LET url == ZipUrl(result_json)
           r   == ReadArchive(Archive(url))
       IN  /\ zip_url' = url
           /\ result' = [status_code |-> 200, body |-> Archive(url)]
           /\ sent' = [sent EXCEPT !.download = @ + 1, !.downloaded = url]
           /\ collection' = r.value
           /\ raised' = r.raises
    /\ pc' = "done"
    /\ RemoteFrame
    /\ UNCHANGED <<task_id, result_json, elapsed_time, polling_interval, wait, logged>>

\* the call is over; the client is ready for its next execQuery
NextCall ==
    /\ pc = "done"
    /\ pc' = "ready"
    /\ customsql' = <<>> /\ sql' = <<>> /\ alldata' = <<>> /\ produced' = <<>>
    /\ executed' = <<>> /\ fetchall' = <<>> /\ extra_params' = NoParams
    /\ json_config' = Unset
    /\ result' = Unset /\ task_id' = Absent /\ result_json' = NoDocument
    /\ elapsed_time' = 0 /\ polling_interval' = initial_polling_interval
    /\ zip_url' = Absent /\ sent' = NothingSent /\ wait' = NoWait
    /\ logged' = {} /\ collection' = Unset /\ raised' = "none"
    /\ UNCHANGED <<source, parts, qc, clientVars>>

Next ==
    \/ ConstructRemote \/ ConstructLocal \/ ConstructFails
    \/ ExecQueryLocal \/ ExecQueryRemote \/ ExecQueryExtraParams
    \/ QueryLocalRows \/ QueryLocalNoResults \/ QueryLocalNoCursor \/ ExecQueryReturn
    \/ SubmitNoSession \/ SubmitNoResponse \/ SubmitResponse
    \/ Poll \/ PollTimeout \/ Download
    \/ NextCall

Spec == Init /\ [][Next]_vars

FairSpec == Spec /\ WF_vars(Next)

(***************************************************************************)
(* uriParser alone, on every string of the grammar and of the shorthand.   *)
(***************************************************************************)
InitUri ==
    /\ \E p \in GrammarParts \cup LegacyParts : parts = p /\ source = Build(p)
    /\ qc = EmptyConfig
    /\ Fresh

UriParse ==
    /\ pc = "new"
    /\ uri' = uriParser(source)
    /\ pc' = "parsed"
    /\ UNCHANGED <<source, parts, qc, dbshell, dbcursor, session, json_config>>
    /\ UNCHANGED <<localVars, remoteVars, outVars>>

NextUri == UriParse

SpecUri == InitUri /\ [][NextUri]_vars

(***************************************************************************)
(* createJson alone, on every configuration of a bounded family.           *)
(***************************************************************************)
MaxWhere == 2

JsonConfigs ==
    {Config(<<>>, [NoEntries EXCEPT !["ways_line"] = <<"highway">>],
            [NoEntries EXCEPT !["nodes"] = wn, !["ways_poly"] = wp]) :
        wn \in SeqsUpTo(WhereEntries, MaxWhere),
        wp \in SeqsUpTo({e \in WhereEntries :
                            e.key = "building" /\ LenV(e.val) = 1 /\ ~e.val.nested}, 1)}

InitJson ==
    /\ source = Underpass
    /\ parts = Unset
    /\ qc \in JsonConfigs
    /\ Fresh

CreateJson ==
    /\ pc \in {"new", "sql"}
    /\ json_config' = createJson(qc, Boundary, TRUE)
    /\ pc' = "compiled"
    /\ UNCHANGED <<source, parts, qc, clientVars>>
    /\ UNCHANGED <<localVars, remoteVars, outVars>>

NextJson == CreateJson

SpecJson == InitJson /\ [][NextJson]_vars

(***************************************************************************)
(* createSQL, and createJson after it, on every configuration of a bounded *)
(* family: one or two declared tables, with and without where entries.     *)
(***************************************************************************)
\* the value lists a where entry can carry, the sentinel among other values
\* included
SqlValueLists == ValueLists \cup {StrList(<<"yes", NotNull>>)}

SqlWhereEntries == [key : {"amenity"}, val : SqlValueLists, op : {"or", "and"}]

SqlConfigs ==
    {Config(tables,
            [NoEntries EXCEPT !["nodes"] = sn, !["ways_poly"] = <<"building">>],
            [NoEntries EXCEPT !["nodes"] = wn, !["ways_poly"] = wp]) :
        tables \in {<<"nodes">>, <<"nodes", "ways_poly">>},
        sn \in {<<>>, <<"amenity">>},
        wn \in SeqsUpTo(SqlWhereEntries, MaxWhere),
        wp \in {<<>>, <<Entry("building", <<"yes">>, "or")>>}}

InitSql ==
    /\ source = <<"d", "b">>
    /\ parts = Unset
    /\ qc \in SqlConfigs
    /\ Fresh

CreateSQL ==
    /\ pc = "new"
    /\ \E allgeom \in BOOLEAN : sql' = createSQL(qc, allgeom)
    /\ pc' = "sql"
    /\ UNCHANGED <<source, parts, qc, clientVars, customsql, extra_params,
                   alldata, produced, executed, fetchall, json_config>>
    /\ UNCHANGED <<remoteVars, outVars>>

NextSql == CreateSQL \/ (pc = "sql" /\ CreateJson)

SpecSql == InitSql /\ [][NextSql]_vars

(***************************************************************************)
(* Properties.                                                             *)
(***************************************************************************)
\* the submission was answered and nothing was requested since
SubmissionAnswered == sent.post = 1 /\ ~sent.polled /\ result # Unset

\* the submission got no response at all
SubmissionUnanswered == sent.post = 1 /\ ~sent.polled /\ result = Unset

\* C1: once queryRemote polls, it eventually either observes SUCCESS or
\* stops polling, reports the timeout and returns None; it never polls
\* forever on responses that are never SUCCESS.
C1_NeverSuccessTimesOut ==
    (pc = "polling")
        ~> \/ result_json.status = "SUCCESS"
           \/ (pc = "done" /\ collection = PyNone /\ raised = "none"
               /\ "timeout" \in logged)

\* C2: when the status responses are k PENDING followed by SUCCESS with a
\* download URL, no status request follows the SUCCESS, the download is made
\* exactly once from that response's download_url, and the call returns the
\* parsed contents of the archive's Export.geojson.
C2_PendingThenSuccess ==
    /\ result_json.status = "SUCCESS"
        => pc \in {"downloading", "done"} /\ ~sent.afterSuccess
    /\ (pc = "done" /\ result_json.status = "SUCCESS" /\ ~sent.sawOther
        /\ result_json.download_url \in {"http://a", "http://b"})
        => /\ sent.download = 1
           /\ sent.downloaded = result_json.download_url
           /\ raised = "none"
           /\ collection = IF result_json.download_url = "http://a"
                           THEN [features |-> <<>>]
                           ELSE [features |-> <<1>>]

\* C2 witness: PENDING, PENDING, SUCCESS, and the second archive returned
C2_Witness ==
    /\ pc = "done" /\ result_json.status = "SUCCESS" /\ ~sent.sawOther
    /\ elapsed_time = 4 /\ sent.download = 1
    /\ collection = [features |-> <<1>>]

\* C3: every wait that begins within the first 60 elapsed seconds lasts 2
\* seconds, every later wait lasts 10 seconds, and the accumulated waiting
\* time never exceeds the 600-second budget.
C3_BackoffWithinBudget ==
    /\ wait # NoWait => wait.length = IF wait.start <= 60 THEN 2 ELSE 10
    /\ elapsed_time <= 600

\* C4: when the submission POST gets no response, or an HTTP error response
\* whose body is no JSON, queryRemote logs the failure and returns None
\* without raising and without a status or download request.
C4_SubmissionFailureIsNull ==
    (pc = "done"
     /\ \/ SubmissionUnanswered
        \/ (SubmissionAnswered /\ RaisesForStatus(result.status_code)
            /\ result.body.kind = "invalid"))
        => /\ raised = "none"
           /\ collection = PyNone
           /\ logged # {}
           /\ sent.download = 0

C6_Dispatch ==
    /\ dbshell # "None"
        => /\ json_config = Unset /\ sent = NothingSent
           /\ pc \notin {"submitting", "polling", "downloading"}
    /\ dbshell = "None"
        => /\ executed = <<>> /\ produced = <<>> /\ sql = <<>>
           /\ pc # "local"
    /\ pc \in {"submitting", "polling", "downloading"} => json_config # Unset
    /\ (pc = "local" /\ executed = <<>> /\ customsql # <<>>) => sql = <<customsql>>
    /\ (uri # Unset /\ uri.dbname = Underpass)
        => dbshell = "None" /\ dbcursor = "None"

\* C6 witness: an "underpass" client finished a call over the remote path
C6_Witness ==
    /\ pc = "done" /\ uri # Unset /\ uri.dbname = Underpass
    /\ dbshell = "None" /\ sent.post = 1 /\ sent.download = 1
    /\ executed = <<>>

\* what a queryLocal result holds: rows of a list, features of a collection
Items(r) == IF r.type = "list" THEN r.rows ELSE r.features

RECURSIVE Concat(_)
Concat(rs) == IF rs = <<>> THEN <<>> ELSE Items(Head(rs)) \o Concat(Tail(rs))

\* C7: on the local path execQuery never raises over the shape of a
\* queryLocal result, and returns the FeatureCollection of what queryLocal
\* produced for each statement, in statement order, also when queryLocal
\* returned raw rows.
C7_LocalAlwaysCollection ==
    (pc = "done" /\ dbshell # "None" /\ dbcursor # "None"
     /\ extra_params = NoParams)
        => /\ raised # "TypeError"
           /\ raised = "none" => collection = FeatureCollection(Concat(produced))

Localhost == <<"l", "o", "c", "a", "l", "h", "o", "s", "t">>

\* the decomposition a connection string built from segments p stands for
Expected(p) ==
    [dbname |-> p.name,
     dbhost |-> IF p.host = None THEN Localhost ELSE p.host,
     dbuser |-> p.user,
     dbpass |-> p.pass,
     dbport |-> p.port]

\* name; user@host/name; user:pass@host:port/name; user:pass/name
Canonical(p) ==
    \/ p.legacy
    \/ (p.user = None /\ p.host = None)
    \/ (p.user # None /\ p.pass = None /\ p.host # None /\ p.port = None)
    \/ (p.user # None /\ p.pass # None /\ p.host # None /\ p.port # None)

\* C8: for every string of the four canonical shapes uriParser returns the
\* segments in their own fields, None for a segment the shape lacks, and
\* "localhost" as host when none is given.
C8_CanonicalShapes ==
    (pc = "parsed" /\ Canonical(parts)) => uri = Expected(parts)

\* C9: for every string of the grammar [[user[:password]@]host[:port]/]dbname
\* the user field is the user segment, the host field is the host segment,
\* and the password is empty unless the string has a password segment.
C9_Grammar ==
    (pc = "parsed" /\ ~parts.legacy)
        => /\ uri.dbuser = parts.user
           /\ parts.host # None => uri.dbhost = parts.host
           /\ parts.pass = None => ~Truthy(uri.dbpass)

\* the where entries of table t with key k and operator op
Clauses(config, t, k, op) ==
    {i \in 1..Len(config.where[t]) :
        config.where[t][i].key = k /\ config.where[t][i].op = op}

\* C10: a key whose clauses carry no "not null" sentinel is recorded under
\* join_or exactly when one of its clauses declares OR, and under join_and
\* exactly when one declares AND.
C10_JoinGroupByOperator ==
    pc = "compiled" =>
        \A t \in Tables : \A k \in Keys :
            LET tags == json_config.filters.tags[TableClass(t)]
                plain == \A i \in 1..Len(qc.where[t]) :
                            qc.where[t][i].key = k
                                => ~InList(NotNull, qc.where[t][i].val)
            IN  plain =>
                    /\ DictHas(tags.join_or, k) <=> Clauses(qc, t, k, "or") # {}
                    /\ DictHas(tags.join_and, k) <=> Clauses(qc, t, k, "and") # {}

(***************************************************************************)
(* The text of a compiled statement, read back as SQL.                     *)
(***************************************************************************)
\* the words after WHERE; none when the statement has no WHERE
WherePart(stmt) ==
    IF \E i \in 1..Len(stmt) : stmt[i] = "WHERE"
    THEN SubSeq(stmt, (CHOOSE i \in 1..Len(stmt) : stmt[i] = "WHERE") + 1, Len(stmt))
    ELSE <<>>

IsBool(w) == w \in {"OR", "AND"}

\* sub occurs in words as consecutive words
Occurs(words, sub) ==
    \E i \in 0..(Len(words) - Len(sub)) : SubSeq(words, i + 1, i + Len(sub)) = sub

\* C11: for every where clause carrying the sentinel "not null", in either
\* operator group, createSQL emits tags->>'key' IS NOT NULL and no equality
\* or membership test against the text 'not null', and createJson records
\* the key (when no other clause of the table names it) with an empty value
\* list under both join_or and join_and.
C11_SentinelNeverLiteral ==
    pc = "compiled" =>
        \A i \in 1..Len(qc.tables) :
            LET t    == qc.tables[i]
                tags == json_config.filters.tags[TableClass(t)]
            IN  \A j \in 1..Len(qc.where[t]) :
                    LET e == qc.where[t][j]
                    IN  InList(NotNull, e.val) =>
                            /\ Occurs(WherePart(sql[i]),
                                      <<TagCol(e.key), "IS", "NOT", "NULL">>)
                            /\ ~Occurs(WherePart(sql[i]),
                                       <<TagCol(e.key), "='" \o NotNull \o "'">>)
                            /\ ~Occurs(WherePart(sql[i]),
                                       <<TagCol(e.key), "IN", TupleText(e.val.items)>>)
                            /\ Cardinality(Clauses(qc, t, e.key, "or")
                                           \cup Clauses(qc, t, e.key, "and")) = 1
                                => /\ DictGet(tags.join_or, e.key) = StrList(<<>>)
                                   /\ DictGet(tags.join_and, e.key) = StrList(<<>>)

\* the predicates of a WHERE part: its runs of words between boolean operators
RECURSIVE Predicates(_, _)
Predicates(words, run) ==
    IF words = <<>> THEN (IF run = <<>> THEN <<>> ELSE <<run>>)
    ELSE IF IsBool(Head(words))
    THEN (IF run = <<>> THEN <<>> ELSE <<run>>) \o Predicates(Tail(words), <<>>)
    ELSE Predicates(Tail(words), Append(run, Head(words)))

\* the predicate the shape of a clause's value list stands for
ShapePredicate(e) ==
    IF e.val.nested
    THEN <<TagCol(e.key) \o "=ANY(ARRAY" \o ListText(e.val.items) \o ")">>
    ELSE IF Len(e.val.items) = 0 THEN <<TagCol(e.key), "IS", "NOT", "NULL">>
    ELSE IF e.val.items = <<NotNull>> THEN <<TagCol(e.key), "IS", "NOT", "NULL">>
    ELSE IF Len(e.val.items) = 1 THEN <<TagCol(e.key), "='" \o e.val.items[1] \o "'">>
    ELSE <<TagCol(e.key), "IN", TupleText(e.val.items)>>

\* C12: createSQL renders every where clause into exactly one predicate
\* chosen by the shape of its value list alone, the same in the OR group and
\* in the AND group: no value gives IS NOT NULL, one concrete value an
\* equality test, several values an IN test, a list of lists an
\* =ANY(ARRAY[...]) test.
C12_PredicateByShape ==
    pc = "sql" =>
        \A i \in 1..Len(qc.tables) :
            LET entries == JoinGroup(qc.where[qc.tables[i]], "or")
                           \o JoinGroup(qc.where[qc.tables[i]], "and")
            IN  Predicates(WherePart(sql[i]), <<>>)
                    = [j \in 1..Len(entries) |-> ShapePredicate(entries[j])]

\* the boolean operators of a WHERE part, in order
Ops(words) == SelectSeq(words, IsBool)

\* the operators of "OR-group AND AND-group" for groups of the given sizes
GroupOps(nOr, nAnd) ==
    [j \in 1..(nOr - 1) |-> "OR"]
    \o (IF nOr > 0 /\ nAnd > 0 THEN <<"AND">> ELSE <<>>)
    \o [j \in 1..(nAnd - 1) |-> "AND"]

\* C13: for every declared table the WHERE part is the OR-group predicates
\* joined by OR, then the AND-group predicates joined by AND, the two groups
\* connected by AND; the statement never ends with a boolean operator, never
\* has two adjacent boolean operators, and has no dangling WHERE or operator
\* when the table has no where entries.
C13_WhereWellFormed ==
    pc = "sql" =>
        \A i \in 1..Len(qc.tables) :
            LET stmt    == sql[i]
                w       == WherePart(stmt)
                entries == qc.where[qc.tables[i]]
            IN  /\ Ops(w) = GroupOps(Len(JoinGroup(entries, "or")),
                                     Len(JoinGroup(entries, "and")))
                /\ ~IsBool(stmt[Len(stmt)])
                /\ \A k \in 1..(Len(w) - 1) : ~(IsBool(w[k]) /\ IsBool(w[k + 1]))
                /\ w # <<>> => ~IsBool(w[1])
                /\ stmt[Len(stmt)] # "WHERE"
                /\ entries # <<>> => w # <<>>

\* the tags of a row whose columns 4.. are the given keys' values, in order,
\* a null column left out
RECURSIVE OwnTags(_, _, _)
OwnTags(keys, row, i) ==
    IF keys = <<>> THEN <<>>
    ELSE (IF row[i] # NULL THEN << <<Head(keys), row[i]>> >> ELSE <<>>)
         \o OwnTags(Tail(keys), row, i + 1)

\* C14: a row of the statement compiled for a declared table T, with one
\* column per attribute selected for T, is decoded into a Feature whose
\* properties are id, version and T's selected keys in declared order, each
\* bound to the value of its own column, every null column left out.
C14_DecoderAgreesWithCompiler ==
    customsql = <<>> =>
        \A k \in 1..Len(produced) :
            produced[k].type = "FeatureCollection" =>
                \A n \in 1..Len(produced[k].features) :
                    LET row == fetchall[k][n]
                    IN  produced[k].features[n].properties
                            = << <<"id", row[2]>>, <<"version", row[3]>> >>
                              \o OwnTags(qc.select[qc.tables[k]], row, 4)

\* C15: every statement queryLocal executes for a table under a boundary
\* reads FROM that table's boundary-scoped view, never FROM the base table.
C15_BoundaryScoped ==
    \A i \in 1..Len(executed) :
        (\A v \in 1..Len(ViewStatements) : executed[i] # ViewStatements[v])
            => \A j \in 1..(Len(executed[i]) - 1) :
                   executed[i][j] = "FROM"
                       => executed[i][j + 1] \in {"ways_view", "nodes_view",
                                                  "lines_view", "relations_view"}

\* C16: a call on the remote path that passes extra_params with bind_zip =
\* False is accepted and returns the finished task's download URL, a string
\* starting with "http", instead of a decoded archive.
C16_ExtraParamsUrl ==
    (pc = "done" /\ extra_params # NoParams /\ ~HasSession(dbshell)
     /\ ~extra_params.bind_zip)
        => /\ raised = "none"
           /\ collection \in Urls

\* C17: in every run of queryRemote at most one submission POST is sent, and
\* exactly one once the run is past the submission; a status GET is sent only
\* after a submission that succeeded and yielded a task id; the download GET
\* is sent at most once and only after a SUCCESS status was observed; after a
\* failed submission no further request is sent.
C17_ProtocolOrder ==
    /\ sent.post <= 1
    /\ (pc \in {"polling", "downloading"} \/ sent.polled \/ sent.download > 0)
        => sent.post = 1
    /\ (pc = "polling" \/ sent.polled) => task_id # Absent
    /\ sent.download <= 1
    /\ sent.download = 1 => sent.polled /\ result_json.status = "SUCCESS"
    /\ SubmissionUnanswered => pc = "done"
    /\ (SubmissionAnswered /\ result.status_code # 200) => pc = "done"
    /\ (pc = "done" /\ sent.post = 1 /\ ~sent.polled) => sent.download = 0

=============================================================================
